---- MODULE Spec2Model ----
(***************************************************************************)
(* Bill lifecycle of split-the-bill: the Firestore "bills" collection, the *)
(* per-client snapshot of it kept by useData, bill creation, and the four  *)
(* status transitions of BillDetailPage.  Every client acts on its own     *)
(* snapshot of a bill and writes whole status maps back with updateDoc.    *)
(***************************************************************************)
EXTENDS Integers, FiniteSets, Sequences, TLC

\* The people of the model: every user has one client (browser session) and
\* every other user is a friend.
Users == {"u", "f1", "f2"}

\* Number of bills that are ever created.
MaxBills == 1

VARIABLES
    user,     \* user[c]: TRUE when client c has an authenticated user (useAuth)
    store,    \* the documents of the Firestore collection "bills"
    bills,    \* bills[c]: the bill list of client c (useData state `bills`)
    nextId,   \* id the next created document gets
    last,     \* the most recent operation and how it ended
    friends,  \* friends[c]: the friend list of client c (useData state `friends`)
    formItems,   \* the items of the add-bill form (formData.items)
    payerBills,  \* last result of the listener on the bills the user paid
    splitBills   \* last result of the listener on the bills the user is in

vars == <<user, store, bills, nextId, last,
          friends, formItems, payerBills, splitBills>>

\* The state of the friends page, of the add-bill form's item editor and of
\* the two bill listeners.
others == <<friends, formItems, payerBills, splitBills>>

TransitionOps == {"markPaid", "unmarkPending", "confirmPaid", "unmarkPaid"}

----------------------------------------------------------------------------
\* Readers of a status map: `bill.paidStatus?.[id] || false`.
Get(m, k) == IF k \in DOMAIN m THEN m[k] ELSE FALSE

\* Object spread with one computed key: `{ ...m, [k]: v }`.
Put(m, k, v) == [x \in (DOMAIN m) \cup {k} |-> IF x = k THEN v ELSE m[x]]

\* updateDoc(ref, updates): every field named in `updates` is replaced as a
\* whole, every other field of the document is kept.
ApplyPatch(doc, updates) ==
    [f \in DOMAIN doc |-> IF f \in DOMAIN updates THEN updates[f] ELSE doc[f]]

----------------------------------------------------------------------------
\* createBill: the status maps of a new bill.
InitialPaidStatusAllUnpaid(paidBy, splitAmong) == [uid \in splitAmong |-> FALSE]

InitialPaidStatus(paidBy, splitAmong) == [uid \in splitAmong |-> uid = paidBy]

InitialPendingStatus(paidBy, splitAmong) == [uid \in splitAmong |-> FALSE]

NewBill(id, paidBy, splitAmong) ==
    [id            |-> id,
     paidBy        |-> paidBy,
     splitAmong    |-> splitAmong,
     paidStatus    |-> InitialPaidStatus(paidBy, splitAmong),
     pendingStatus |-> InitialPendingStatus(paidBy, splitAmong)]

\* createBill throws "User not authenticated" before it touches the store.
CreateBillNeverThrows(c) == FALSE

CreateBillThrows(c) == ~user[c]

\* The add-bill form lets step 1 pass when somebody is selected to split with
\* and a payer is chosen.
FormAllowsNext(paidBy, splitAmong) == splitAmong # {} /\ paidBy \in Users

----------------------------------------------------------------------------
\* The updates each handler of BillDetailPage submits, computed from the
\* `bill` prop (the client's snapshot).
MarkPaidUpdates(bill, personId) ==
    [pendingStatus |-> Put(bill.pendingStatus, personId, TRUE)]

UnmarkPendingUpdates(bill, personId) ==
    [pendingStatus |-> Put(bill.pendingStatus, personId, FALSE)]

ConfirmPaidUpdatesPaidOnly(bill, personId) ==
    [paidStatus |-> Put(bill.paidStatus, personId, TRUE)]

ConfirmPaidUpdates(bill, personId) ==
    [paidStatus    |-> Put(bill.paidStatus, personId, TRUE),
     pendingStatus |-> Put(bill.pendingStatus, personId, FALSE)]

UnmarkPaidUpdates(bill, personId) ==
    [paidStatus |-> Put(bill.paidStatus, personId, FALSE)]

Updates(op, bill, personId) ==
    CASE op = "markPaid"      -> MarkPaidUpdates(bill, personId)
      [] op = "unmarkPending" -> UnmarkPendingUpdates(bill, personId)
      [] op = "confirmPaid"   -> ConfirmPaidUpdates(bill, personId)
      [] op = "unmarkPaid"    -> UnmarkPaidUpdates(bill, personId)

\* The buttons BillDetailPage renders in the row of participant personId for
\* the viewer uid.
RowHasActions(bill, personId) ==
    personId \in bill.splitAmong /\ personId # bill.paidBy

CanMarkPaid(bill, uid, personId) ==
    /\ RowHasActions(bill, personId)
    /\ uid = personId
    /\ ~Get(bill.paidStatus, personId)
    /\ ~Get(bill.pendingStatus, personId)

CanUnmarkPending(bill, uid, personId) ==
    /\ RowHasActions(bill, personId)
    /\ Get(bill.pendingStatus, personId)
    /\ ~Get(bill.paidStatus, personId)
    /\ (uid = personId \/ uid = bill.paidBy)

CanConfirmPaidAnyViewer(bill, uid, personId) ==
    /\ RowHasActions(bill, personId)
    /\ Get(bill.pendingStatus, personId)
    /\ ~Get(bill.paidStatus, personId)

CanConfirmPaid(bill, uid, personId) ==
    /\ RowHasActions(bill, personId)
    /\ uid = bill.paidBy
    /\ Get(bill.pendingStatus, personId)
    /\ ~Get(bill.paidStatus, personId)

CanUnmarkPaid(bill, uid, personId) ==
    /\ RowHasActions(bill, personId)
    /\ Get(bill.paidStatus, personId)
    /\ uid = bill.paidBy

CanDelete(bill, uid) == uid = bill.paidBy

\* What the awaiting caller gets: updateBill and deleteBill start the write
\* and return nothing; createBill awaits addDoc.
UpdateBillReturnsWrite == FALSE

DeleteBillReturnsWrite == FALSE

CreateBillAwaitsWrite == TRUE

\* The two queries of useData: bills the user paid, bills the user is in.
Visible(b, uid) == b.paidBy = uid \/ uid \in b.splitAmong

----------------------------------------------------------------------------
\* The record of an operation: who asked for what, whether the store applied
\* it (ok), the error raised ("none", "unauthenticated", "write") and whether
\* the requesting handler got to see that error (caught).
Op(op, c, id, p, error, caught) ==
    [op |-> op, actor |-> c, id |-> id, p |-> p, ok |-> error = "none",
     error |-> error, caught |-> caught]

WriteError(ok) == IF ok THEN "none" ELSE "write"

\* Nothing on the friends page, in the item editor or from the listeners.
NoOthers ==
    /\ friends = [c \in Users |-> {}]
    /\ formItems = << >>
    /\ payerBills = << >>
    /\ splitBills = << >>

Init ==
    /\ user = [c \in Users |-> FALSE]
    /\ store = {}
    /\ bills = [c \in Users |-> {}]
    /\ nextId = 1
    /\ last = Op("init", "u", 0, "u", "none", FALSE)
    /\ NoOthers

\* onAuthStateChanged delivers a signed-in user.
Login(c) ==
    /\ ~user[c]
    /\ user' = [user EXCEPT ![c] = TRUE]
    /\ last' = Op("login", c, 0, c, "none", FALSE)
    /\ UNCHANGED <<store, bills, nextId, others>>

\* onAuthStateChanged delivers null; the effect of useData clears the lists.
Logout(c) ==
    /\ user[c]
    /\ user' = [user EXCEPT ![c] = FALSE]
    /\ bills' = [bills EXCEPT ![c] = {}]
    /\ last' = Op("logout", c, 0, c, "none", FALSE)
    /\ friends' = [friends EXCEPT ![c] = {}]
    /\ UNCHANGED <<store, nextId, formItems, payerBills, splitBills>>

\* An onSnapshot callback: the client's list becomes the stored bills its two
\* queries match.
Deliver(c) ==
    /\ user[c]
    /\ bills' = [bills EXCEPT ![c] = {b \in store : Visible(b, c)}]
    /\ last' = Op("snapshot", c, 0, c, "none", FALSE)
    /\ UNCHANGED <<user, store, nextId, others>>

\* handleFinish of the add-bill form calling createBill with the payer and the
\* people the form holds.  createBill checks the user itself, whoever calls it:
\* with no user it throws; otherwise addDoc stores the bill or is rejected,
\* and the rejection is thrown on to handleFinish.
CreateBill(c) ==
    /\ nextId <= MaxBills
    /\ \E paidBy \in Users, splitAmong \in SUBSET Users :
        /\ FormAllowsNext(paidBy, splitAmong)
        /\ \/ /\ CreateBillThrows(c)
              /\ last' = Op("createBill", c, 0, paidBy, "unauthenticated", TRUE)
              /\ UNCHANGED <<store, nextId>>
           \/ /\ ~CreateBillThrows(c)
              /\ \/ /\ store' = store \cup {NewBill(nextId, paidBy, splitAmong)}
                    /\ nextId' = nextId + 1
                    /\ last' = Op("createBill", c, nextId, paidBy, "none", FALSE)
                 \/ /\ last' = Op("createBill", c, 0, paidBy, "write",
                                  CreateBillAwaitsWrite)
                    /\ UNCHANGED <<store, nextId>>
    /\ UNCHANGED <<user, bills, others>>

UpdateBillAppliedThoughRejected(id, updates, ok) ==
    \E doc \in store :
        /\ doc.id = id
        /\ store' = (store \ {doc}) \cup {ApplyPatch(doc, updates)}

\* updateBill(billId, updates): updateDoc on the stored document; the write
\* is applied (ok) or rejected, and is rejected when the document is gone.
UpdateBill(id, updates, ok) ==
    IF ok
    THEN \E doc \in store :
            /\ doc.id = id
            /\ store' = (store \ {doc}) \cup {ApplyPatch(doc, updates)}
    ELSE store' = store

\* The snapshot listener of the writing client fires for its own write as soon
\* as the write is applied to its local copy of the document: the client's
\* list shows the bill with the submitted updates.
LocalEcho(c, bill, updates) ==
    [bills EXCEPT ![c] = (@ \ {bill}) \cup {ApplyPatch(bill, updates)}]

Transition(c, op, bill, personId) ==
    \E ok \in BOOLEAN :
        /\ UpdateBill(bill.id, Updates(op, bill, personId), ok)
        /\ bills' = IF ok THEN LocalEcho(c, bill, Updates(op, bill, personId))
                          ELSE bills
        /\ last' = Op(op, c, bill.id, personId, WriteError(ok),
                      UpdateBillReturnsWrite /\ ~ok)
        /\ UNCHANGED <<user, nextId, others>>

HandleMarkPaid(c) ==
    /\ user[c]
    /\ \E bill \in bills[c], personId \in Users :
        /\ CanMarkPaid(bill, c, personId)
        /\ Transition(c, "markPaid", bill, personId)

HandleUnmarkPending(c) ==
    /\ user[c]
    /\ \E bill \in bills[c], personId \in Users :
        /\ CanUnmarkPending(bill, c, personId)
        /\ Transition(c, "unmarkPending", bill, personId)

HandleConfirmPaid(c) ==
    /\ user[c]
    /\ \E bill \in bills[c], personId \in Users :
        /\ CanConfirmPaid(bill, c, personId)
        /\ Transition(c, "confirmPaid", bill, personId)

HandleUnmarkPaid(c) ==
    /\ user[c]
    /\ \E bill \in bills[c], personId \in Users :
        /\ CanUnmarkPaid(bill, c, personId)
        /\ Transition(c, "unmarkPaid", bill, personId)

\* handleDelete calling deleteBill: deleteDoc removes the document or fails.
HandleDelete(c) ==
    /\ user[c]
    /\ \E bill \in bills[c], ok \in BOOLEAN :
        /\ CanDelete(bill, c)
        /\ store' = IF ok THEN {d \in store : d.id # bill.id} ELSE store
        /\ bills' = IF ok THEN [bills EXCEPT ![c] = @ \ {bill}] ELSE bills
        /\ last' = Op("deleteBill", c, bill.id, c, WriteError(ok),
                      DeleteBillReturnsWrite /\ ~ok)
        /\ UNCHANGED <<user, nextId, others>>

Next ==
    \E c \in Users :
        \/ Login(c)
        \/ Logout(c)
        \/ Deliver(c)
        \/ CreateBill(c)
        \/ HandleMarkPaid(c)
        \/ HandleUnmarkPending(c)
        \/ HandleConfirmPaid(c)
        \/ HandleUnmarkPaid(c)
        \/ HandleDelete(c)

Spec == Init /\ [][Next]_vars

----------------------------------------------------------------------------
\* Numbers.  A JavaScript number is modelled by the exact fraction num/den in
\* lowest terms (den > 0), or by NaN.  A field that is missing or holds text
\* that is not a number is the value parseFloat gives for it: NaN.
RECURSIVE Gcd(_, _)
Gcd(a, b) == IF b = 0 THEN a ELSE Gcd(b, a % b)

Abs(x) == IF x < 0 THEN -x ELSE x

Frac(n, d) ==
    LET g == Gcd(Abs(n), Abs(d))
        s == IF d < 0 THEN -1 ELSE 1
    IN  [nan |-> FALSE, num |-> (s * n) \div g, den |-> (s * d) \div g]

NaN == [nan |-> TRUE, num |-> 0, den |-> 1]

Num(n) == Frac(n, 1)

Zero == Num(0)

Plus(a, b) ==
    IF a.nan \/ b.nan THEN NaN
    ELSE Frac(a.num * b.den + b.num * a.den, a.den * b.den)

Minus(a, b) ==
    IF a.nan \/ b.nan THEN NaN
    ELSE Frac(a.num * b.den - b.num * a.den, a.den * b.den)

Times(a, b) ==
    IF a.nan \/ b.nan THEN NaN ELSE Frac(a.num * b.num, a.den * b.den)

\* a / b; a division by zero gives no finite number.
Over(a, b) ==
    IF a.nan \/ b.nan \/ b.num = 0 THEN NaN
    ELSE Frac(a.num * b.den, a.den * b.num)

\* `x === 0`
IsZero(a) == ~a.nan /\ a.num = 0

\* Math.round(x * 100) / 100
Round2(a) ==
    IF a.nan THEN NaN
    ELSE Frac((2 * 100 * a.num + a.den) \div (2 * a.den), 100)

SafeNumberKeepingNaN(value) == value

\* safeNumber: parseFloat, with NaN replaced by 0.
SafeNumber(value) == IF value.nan THEN Zero ELSE value

\* `parseFloat(x) || 0`
ParseOrZero(value) == IF value.nan THEN Zero ELSE value

\* `m[k]` of a map of numbers: undefined for a missing key.
ItemOf(m, k) == IF k \in DOMAIN m THEN m[k] ELSE NaN

\* Object.values(m).reduce((a, b) => a + safeNumber(b), 0)
RECURSIVE SumSafe(_, _)
SumSafe(m, keys) ==
    IF keys = {} THEN Zero
    ELSE LET k == CHOOSE x \in keys : TRUE
         IN  Plus(SumSafe(m, keys \ {k}), SafeNumber(m[k]))

----------------------------------------------------------------------------
\* calculateUserShare of useBalances (calculateAmounts of the dashboard is the
\* same code).
SplitCount(bill) ==
    IF Cardinality(bill.splitAmong) = 0 THEN 1 ELSE Cardinality(bill.splitAmong)

ItemizedTotal(bill) == SumSafe(bill.itemizedAmounts, DOMAIN bill.itemizedAmounts)

TaxAmount(bill) ==
    Over(Times(ItemizedTotal(bill), SafeNumber(bill.taxPercentage)), Num(100))

TipsAmount(bill) ==
    Over(Times(ItemizedTotal(bill), SafeNumber(bill.tipsPercentage)), Num(100))

EqualShareOneLess(bill) ==
    Over(SafeNumber(bill.amount), Num(SplitCount(bill) + 1))

EqualShare(bill) == Over(SafeNumber(bill.amount), Num(SplitCount(bill)))

CustomShareOfAmount(bill, userId) ==
    LET userItemAmount == SafeNumber(ItemOf(bill.itemizedAmounts, userId))
        base == SafeNumber(bill.amount)
        totalTaxAndTips ==
            Plus(Over(Times(base, SafeNumber(bill.taxPercentage)), Num(100)),
                 Over(Times(base, SafeNumber(bill.tipsPercentage)), Num(100)))
    IN  IF IsZero(ItemizedTotal(bill)) THEN userItemAmount
        ELSE Plus(userItemAmount,
                  Times(Over(userItemAmount, ItemizedTotal(bill)),
                        totalTaxAndTips))

CustomShare(bill, userId) ==
    LET itemizedTotal == ItemizedTotal(bill)
        totalTaxAndTips == Plus(TaxAmount(bill), TipsAmount(bill))
        userItemAmount == SafeNumber(ItemOf(bill.itemizedAmounts, userId))
    IN  IF IsZero(itemizedTotal) THEN userItemAmount
        ELSE Plus(userItemAmount,
                  Times(Over(userItemAmount, itemizedTotal), totalTaxAndTips))

CalculateUserShare(bill, userId) ==
    LET totalAmount == SafeNumber(bill.amount)
    IN  IF IsZero(totalAmount) /\ bill.splitType = "equal" THEN Zero
        ELSE IF bill.splitType = "equal" THEN EqualShare(bill)
        ELSE CustomShare(bill, userId)

----------------------------------------------------------------------------
\* calculateAmounts of the bill detail page: the amount shown for every
\* person of splitAmong.

\* `x || 0` of a number
OrZero(value) == IF value.nan \/ value.num = 0 THEN Zero ELSE value

\* Object.values(m).reduce((a, b) => a + b, 0)
RECURSIVE SumRaw(_, _)
SumRaw(m, keys) ==
    IF keys = {} THEN Zero
    ELSE LET k == CHOOSE x \in keys : TRUE
         IN  Plus(SumRaw(m, keys \ {k}), m[k])

\* `x > 0`
IsPositive(value) == ~value.nan /\ value.num > 0

DetailAmounts(bill) ==
    IF bill.splitType = "equal"
    THEN [personId \in bill.splitAmong |->
            Over(bill.amount, Num(Cardinality(bill.splitAmong)))]
    ELSE LET taxPercent == OrZero(bill.taxPercentage)
             tipsPercent == OrZero(bill.tipsPercentage)
             itemizedTotal == SumRaw(bill.itemizedAmounts,
                                     DOMAIN bill.itemizedAmounts)
             taxAmount == Over(Times(itemizedTotal, taxPercent), Num(100))
             tipsAmount == Over(Times(itemizedTotal, tipsPercent), Num(100))
             totalTaxAndTips == Plus(taxAmount, tipsAmount)
         IN  [personId \in bill.splitAmong |->
                LET itemAmount == OrZero(ItemOf(bill.itemizedAmounts, personId))
                    share == IF IsPositive(itemizedTotal)
                             THEN Times(Over(itemAmount, itemizedTotal),
                                        totalTaxAndTips)
                             ELSE Zero
                IN  Plus(itemAmount, share)]

----------------------------------------------------------------------------
\* The add-bill form: handleFinish builds billData, createBill stores it.

\* subtotals[uid] += x for every uid of S, a missing entry starting at 0.
AddTo(subtotals, S, x) ==
    [k \in (DOMAIN subtotals) \cup S |->
        IF k \in S
        THEN Plus(IF k \in DOMAIN subtotals THEN subtotals[k] ELSE Zero, x)
        ELSE subtotals[k]]

AddItemAmongAll(subtotals, item, splitAmong) ==
    AddTo(subtotals, splitAmong,
          Over(ParseOrZero(item.amount),
               Num(IF splitAmong = {} THEN 1 ELSE Cardinality(splitAmong))))

\* One round of formData.items.forEach in handleFinish.
AddItem(subtotals, item, splitAmong) ==
    LET amt == ParseOrZero(item.amount)
    IN  IF item.assignedTo # ""
        THEN AddTo(subtotals, {item.assignedTo}, amt)
        ELSE IF item.sharedWith # {}
        THEN AddTo(subtotals, item.sharedWith,
                   Over(amt, Num(Cardinality(item.sharedWith))))
        ELSE AddTo(subtotals, splitAmong,
                   Over(amt, Num(IF splitAmong = {} THEN 1
                                 ELSE Cardinality(splitAmong))))

RECURSIVE AddItems(_, _, _)
AddItems(subtotals, items, splitAmong) ==
    IF items = << >> THEN subtotals
    ELSE AddItems(AddItem(subtotals, Head(items), splitAmong),
                  Tail(items), splitAmong)

\* The legacy per-user itemizedAmounts handleFinish computes from the items.
ItemizedSubtotals(items, splitAmong) ==
    AddItems([id \in splitAmong |-> Zero], items, splitAmong)

RECURSIVE ItemsSum(_)
ItemsSum(items) ==
    IF items = << >> THEN Zero
    ELSE Plus(ParseOrZero(Head(items).amount), ItemsSum(Tail(items)))

\* The percentage handleFinish stores for a tax or tips input: the input
\* itself when it is a percentage, else the absolute amount converted with
\* the base; nothing is stored (undefined) when the input is empty or 0.
StoredPercent(raw, isPercent, base) ==
    LET value == ParseOrZero(raw)
    IN  IF IsZero(value) THEN NaN
        ELSE IF isPercent THEN Round2(value)
        ELSE IF ~IsZero(base) /\ base.num > 0
             THEN Round2(Times(Over(value, base), Num(100)))
        ELSE Round2(Zero)

\* billData of handleFinish for the form contents.
BillData(form) ==
    LET custom == form.splitType = "custom"
        base == IF custom THEN ItemsSum(form.items)
                ELSE ParseOrZero(form.amount)
    IN  [amount          |-> form.amount,
         paidBy          |-> form.paidBy,
         splitAmong      |-> form.splitAmong,
         splitType       |-> form.splitType,
         items           |-> IF custom THEN form.items ELSE << >>,
         itemizedAmounts |-> IF custom
                             THEN ItemizedSubtotals(form.items, form.splitAmong)
                             ELSE << >>,
         taxPercentage   |-> StoredPercent(form.taxValue, form.taxIsPercent, base),
         tipsPercentage  |-> StoredPercent(form.tipsValue, form.tipsIsPercent, base)]

\* The "Create Bill" button of step 2.
FormAllowsFinish(form) ==
    ~(form.splitType = "custom" /\ IsZero(ItemsSum(form.items)))

\* The document createBill adds: billData with the status maps.
CreateBillDocument(id, billData) ==
    LET status == NewBill(id, billData.paidBy, billData.splitAmong)
    IN  [f \in (DOMAIN billData) \cup (DOMAIN status) |->
            IF f \in DOMAIN status THEN status[f] ELSE billData[f]]

----------------------------------------------------------------------------
\* The share calculator on the bills the form can create: one bill is
\* created from the form and its per-person shares are computed.
MaxItems == 2

AmountInputs == {NaN, Num(0), Num(10), Num(12)}

CustomAmountInputs == {NaN, Num(12)}

ItemAmountInputs == {NaN, Num(10), Num(30)}

\* An item is assigned to one person (the "Assign to" list offers every
\* participant), shared among some, or neither.
ItemInputs ==
    { [amount |-> a, assignedTo |-> p, sharedWith |-> {}] :
        a \in ItemAmountInputs, p \in Users \cup {""} }
    \cup
    { [amount |-> a, assignedTo |-> "", sharedWith |-> S] :
        a \in ItemAmountInputs, S \in {{"u", "f1"}, {"f2"}} }

ItemLists == UNION { [1..n -> ItemInputs] : n \in 0..MaxItems }

TaxTipsInputs ==
    { [taxValue |-> NaN,     taxIsPercent |-> TRUE,  tipsValue |-> NaN,    tipsIsPercent |-> TRUE],
      [taxValue |-> Num(10), taxIsPercent |-> TRUE,  tipsValue |-> Num(5), tipsIsPercent |-> TRUE],
      [taxValue |-> Num(3),  taxIsPercent |-> FALSE, tipsValue |-> NaN,    tipsIsPercent |-> TRUE],
      [taxValue |-> NaN,     taxIsPercent |-> TRUE,  tipsValue |-> Num(2), tipsIsPercent |-> FALSE] }

Form(splitType, amount, paidBy, splitAmong, items, t) ==
    [splitType |-> splitType, amount |-> amount, paidBy |-> paidBy,
     splitAmong |-> splitAmong, items |-> items,
     taxValue |-> t.taxValue, taxIsPercent |-> t.taxIsPercent,
     tipsValue |-> t.tipsValue, tipsIsPercent |-> t.tipsIsPercent]

Forms ==
    { Form("equal", a, p, S, << >>, t) :
        a \in AmountInputs, p \in Users, S \in SUBSET Users, t \in TaxTipsInputs }
    \cup
    { Form("custom", a, p, S, items, t) :
        a \in CustomAmountInputs, p \in Users, S \in SUBSET Users,
        items \in ItemLists, t \in TaxTipsInputs }

\* The earlier revision of the form asks for one amount per person instead
\* of items; an entry typed for a person stays when the person is removed
\* from splitAmong afterwards.
LegacyItemAmountInputs == {Num(0), Num(10), Num(0 - 10)}

LegacyAmountInputs == {Num(0), Num(12)}

LegacyForms ==
    { [splitType |-> st, amount |-> a, paidBy |-> p, splitAmong |-> S,
       itemizedAmounts |-> m,
       taxValue |-> t.taxValue, taxIsPercent |-> t.taxIsPercent,
       tipsValue |-> t.tipsValue, tipsIsPercent |-> t.tipsIsPercent] :
        st \in {"equal", "custom"}, a \in LegacyAmountInputs, p \in Users,
        S \in SUBSET Users,
        m \in UNION { [K -> LegacyItemAmountInputs] : K \in SUBSET Users },
        t \in TaxTipsInputs }

\* Step 2 "Next" and step 3 "Create Bill" of the earlier revision.
LegacyFormAllowsFinish(form) ==
    /\ form.splitAmong # {}
    /\ form.paidBy \in Users
    /\ ~(form.splitType = "custom"
         /\ \A k \in DOMAIN form.itemizedAmounts : IsZero(form.itemizedAmounts[k]))

\* billData of the earlier revision's handleFinish.
LegacyBillData(form) ==
    LET base == ParseOrZero(form.amount)
    IN  [amount          |-> form.amount,
         paidBy          |-> form.paidBy,
         splitAmong      |-> form.splitAmong,
         splitType       |-> form.splitType,
         items           |-> << >>,
         itemizedAmounts |-> IF form.splitType = "custom"
                             THEN form.itemizedAmounts ELSE << >>,
         taxPercentage   |-> StoredPercent(form.taxValue, form.taxIsPercent, base),
         tipsPercentage  |-> StoredPercent(form.tipsValue, form.tipsIsPercent, base)]

Shares(bill) == [p \in Users |-> CalculateUserShare(bill, p)]

ShareInit ==
    /\ user = [c \in Users |-> c = "u"]
    /\ store = {}
    /\ bills = [c \in Users |-> {}]
    /\ nextId = 1
    /\ last = [op |-> "init", shares |-> [p \in Users |-> Zero]]
    /\ NoOthers

\* Step 2 of the form, "Create Bill": handleFinish, then createBill.
FinishForm ==
    /\ store = {}
    /\ user["u"]
    /\ \E form \in Forms :
        /\ FormAllowsNext(form.paidBy, form.splitAmong)
        /\ FormAllowsFinish(form)
        /\ store' = {CreateBillDocument(nextId, BillData(form))}
    /\ nextId' = nextId + 1
    /\ last' = [op |-> "createBill", shares |-> last.shares]
    /\ UNCHANGED <<user, bills, others>>

\* "Create Bill" of the earlier revision of the form.
FinishLegacyForm ==
    /\ store = {}
    /\ user["u"]
    /\ \E form \in LegacyForms :
        /\ LegacyFormAllowsFinish(form)
        /\ store' = {CreateBillDocument(nextId, LegacyBillData(form))}
    /\ nextId' = nextId + 1
    /\ last' = [op |-> "createBill", shares |-> last.shares]
    /\ UNCHANGED <<user, bills, others>>

\* A page computes every person's share of the stored bill.
ComputeShares ==
    /\ last.op = "createBill"
    /\ \E bill \in store :
        last' = [op |-> "shares", shares |-> Shares(bill),
                 detail |-> DetailAmounts(bill)]
    /\ UNCHANGED <<user, store, bills, nextId, others>>

ShareNext == FinishForm \/ FinishLegacyForm \/ ComputeShares

ShareSpec == ShareInit /\ [][ShareNext]_vars

----------------------------------------------------------------------------
\* The item editor of the add-bill form (custom split): formData.items.
\* An item's assignedTo is "" when it is undefined.
ItemNames == {"", "x"}

ItemAmountTexts == {NaN, Num(10)}

\* The item addItem appends.
NewItem(id) ==
    [id |-> id, name |-> "", amount |-> NaN, assignedTo |-> "", sharedWith |-> {}]

\* items.map(i => i.id === id ? f(i) : i)
MapItem(itemList, id, new) ==
    [k \in 1..Len(itemList) |->
        IF itemList[k].id = id THEN new ELSE itemList[k]]

ToggledKeepingAssignee(item, userId) ==
    [item EXCEPT !.sharedWith = IF userId \in @ THEN @ \ {userId}
                                ELSE @ \cup {userId}]

\* The item toggleItemSharedUser puts in the place of the item.
Toggled(item, userId) ==
    LET sharedWith == IF userId \in item.sharedWith
                      THEN item.sharedWith \ {userId}
                      ELSE item.sharedWith \cup {userId}
    IN  [item EXCEPT !.sharedWith = sharedWith,
                     !.assignedTo = IF sharedWith # {} THEN "" ELSE @]

\* The item setItemAssignedTo puts in the place of the item.
Assigned(item, userId) ==
    [item EXCEPT !.assignedTo = userId,
                 !.sharedWith = IF userId # "" THEN {} ELSE @]

\* The record of an operation of the editor: the item it acted on and the
\* assignee the item had.
FormOp(op, item) ==
    [op |-> op, id |-> item.id, wasAssignedTo |-> item.assignedTo]

FormInit ==
    /\ user = [c \in Users |-> c = "u"]
    /\ store = {}
    /\ bills = [c \in Users |-> {}]
    /\ nextId = 1
    /\ last = FormOp("init", NewItem(0))
    /\ NoOthers

\* "Add item"; the identifier is one no item of the list has.
FormAddItem ==
    /\ Len(formItems) < MaxItems
    /\ \E id \in 1..MaxItems :
        /\ \A k \in 1..Len(formItems) : formItems[k].id # id
        /\ formItems' = Append(formItems, NewItem(id))
        /\ last' = FormOp("addItem", NewItem(id))
    /\ UNCHANGED <<user, store, bills, nextId, friends, payerBills, splitBills>>

FormRemoveItem ==
    /\ \E k \in 1..Len(formItems) :
        /\ formItems' = SelectSeq(formItems, LAMBDA i : i.id # formItems[k].id)
        /\ last' = FormOp("removeItem", formItems[k])
    /\ UNCHANGED <<user, store, bills, nextId, friends, payerBills, splitBills>>

\* The name and the amount inputs of an item.
UpdateItemField ==
    /\ \E k \in 1..Len(formItems) :
        \/ \E name \in ItemNames :
            /\ formItems' = MapItem(formItems, formItems[k].id,
                                    [formItems[k] EXCEPT !.name = name])
            /\ last' = FormOp("updateItemField", formItems[k])
        \/ \E amount \in ItemAmountTexts :
            /\ formItems' = MapItem(formItems, formItems[k].id,
                                    [formItems[k] EXCEPT !.amount = amount])
            /\ last' = FormOp("updateItemField", formItems[k])
    /\ UNCHANGED <<user, store, bills, nextId, friends, payerBills, splitBills>>

ToggleItemSharedUser ==
    /\ \E k \in 1..Len(formItems), userId \in Users :
        /\ formItems' = MapItem(formItems, formItems[k].id,
                                Toggled(formItems[k], userId))
        /\ last' = FormOp("toggleItemSharedUser", formItems[k])
    /\ UNCHANGED <<user, store, bills, nextId, friends, payerBills, splitBills>>

\* The "Assign to" list: a participant, or "All" (no assignee).
SetItemAssignedTo ==
    /\ \E k \in 1..Len(formItems), userId \in Users \cup {""} :
        /\ formItems' = MapItem(formItems, formItems[k].id,
                                Assigned(formItems[k], userId))
        /\ last' = FormOp("setItemAssignedTo", formItems[k])
    /\ UNCHANGED <<user, store, bills, nextId, friends, payerBills, splitBills>>

FormNext ==
    \/ FormAddItem
    \/ FormRemoveItem
    \/ UpdateItemField
    \/ ToggleItemSharedUser
    \/ SetItemAssignedTo

FormSpec == FormInit /\ [][FormNext]_vars

----------------------------------------------------------------------------
\* The share calculator on bill documents as the collection may hold them,
\* whoever wrote them: any numeric field may be missing or hold text that is
\* not a number (NaN), splitAmong may be missing or empty (the empty set).
RawValues == {NaN, Num(0), Num(10)}

RawBills ==
    { [id |-> 1, paidBy |-> "u", splitAmong |-> S,
       paidStatus |-> InitialPaidStatus("u", S),
       pendingStatus |-> InitialPendingStatus("u", S),
       amount |-> a, splitType |-> st, items |-> << >>,
       itemizedAmounts |-> m, taxPercentage |-> tax, tipsPercentage |-> tips] :
        S \in SUBSET Users, a \in {NaN, Num(0), Num(12)},
        st \in {"equal", "custom"},
        m \in UNION { [K -> RawValues] : K \in SUBSET Users },
        tax \in {NaN, Num(10)}, tips \in {NaN, Num(5)} }

RobustInit ==
    /\ user = [c \in Users |-> c = "u"]
    /\ store \in { {doc} : doc \in RawBills }
    /\ bills = [c \in Users |-> {}]
    /\ nextId = 2
    /\ last = [op |-> "createBill", shares |-> [p \in Users |-> Zero]]
    /\ NoOthers

RobustNext == ComputeShares

RobustSpec == RobustInit /\ [][RobustNext]_vars

----------------------------------------------------------------------------
\* useBalances: the balances between the user and each friend, computed from
\* the user's bill list.

IsBillCompletedCountingPending(bill) ==
    \A personId \in bill.splitAmong \ {bill.paidBy} :
        Get(bill.paidStatus, personId) \/ Get(bill.pendingStatus, personId)

IsBillCompleted(bill) ==
    LET peopleWhoPay == bill.splitAmong \ {bill.paidBy}
    IN  IF peopleWhoPay = {} THEN TRUE
        ELSE \A personId \in peopleWhoPay : Get(bill.paidStatus, personId)

CountedEvenIfCompleted(bill, userId) == userId \in bill.splitAmong

\* The two early returns of the loop over the bills.
Counted(bill, userId) ==
    ~IsBillCompleted(bill) /\ userId \in bill.splitAmong

NewEntry == [owes |-> Zero, owed |-> Zero, netBalance |-> Zero]

EntryOf(balanceMap, id) ==
    IF id \in DOMAIN balanceMap THEN balanceMap[id] ELSE NewEntry

DebtorsIncludingPaid(bill, userId) == bill.splitAmong \ {userId}

\* Case 1: the people of the split, the user aside, who have not paid.
Debtors(bill, userId) ==
    {personId \in bill.splitAmong \ {userId} : ~Get(bill.paidStatus, personId)}

UserOwesUnlessPending(bill, userId) ==
    ~Get(bill.paidStatus, userId) /\ ~Get(bill.pendingStatus, userId)

\* Case 2: `!isPaid`.
UserOwes(bill, userId) == ~Get(bill.paidStatus, userId)

\* One round of bills.forEach.
AddBill(balanceMap, bill, userId) ==
    IF ~Counted(bill, userId) THEN balanceMap
    ELSE IF bill.paidBy = userId
    THEN [id \in (DOMAIN balanceMap) \cup Debtors(bill, userId) |->
            IF id \in Debtors(bill, userId)
            THEN [EntryOf(balanceMap, id) EXCEPT
                     !.owes = Plus(@, CalculateUserShare(bill, id))]
            ELSE balanceMap[id]]
    ELSE [id \in (DOMAIN balanceMap) \cup {bill.paidBy} |->
            IF id = bill.paidBy /\ UserOwes(bill, userId)
            THEN [EntryOf(balanceMap, id) EXCEPT
                     !.owed = Plus(@, CalculateUserShare(bill, userId))]
            ELSE EntryOf(balanceMap, id)]

RECURSIVE AddBills(_, _, _)
AddBills(balanceMap, billList, userId) ==
    IF billList = {} THEN balanceMap
    ELSE LET bill == CHOOSE b \in billList :
                        \A other \in billList : b.id <= other.id
         IN  AddBills(AddBill(balanceMap, bill, userId),
                      billList \ {bill}, userId)

NetBalanceReversed(entry) == Minus(entry.owed, entry.owes)

NetBalance(entry) == Minus(entry.owes, entry.owed)

\* The balance map useBalances returns.
ComputeBalances(billList, userId) ==
    LET balanceMap == AddBills(<< >>, billList, userId)
    IN  [id \in DOMAIN balanceMap |->
            [balanceMap[id] EXCEPT !.netBalance = NetBalance(balanceMap[id])]]

----------------------------------------------------------------------------
\* The balances of user "u" on the bill lists a snapshot can deliver.
MaxListLen == 2

\* The forms of the bills in the lists: an equal split of 12, and a custom
\* split with an item of 10 for "u", an item of 30 for everybody and 10% tax.
BalanceForms ==
    { Form("equal", Num(12), p, S, << >>,
           [taxValue |-> NaN, taxIsPercent |-> TRUE,
            tipsValue |-> NaN, tipsIsPercent |-> TRUE]) :
        p \in Users, S \in SUBSET Users }
    \cup
    { Form("custom", NaN, p, S,
           << [amount |-> Num(10), assignedTo |-> "u", sharedWith |-> {}],
              [amount |-> Num(30), assignedTo |-> "", sharedWith |-> {}] >>,
           [taxValue |-> Num(10), taxIsPercent |-> TRUE,
            tipsValue |-> NaN, tipsIsPercent |-> TRUE]) :
        p \in Users, S \in SUBSET Users }

\* The status maps the transitions can leave in a bill: the payer's entries
\* stay as created, a participant's paid entry is anything, and "u" may have
\* a payment pending.
StatusUpdates(doc) ==
    { [paidStatus |-> [id \in doc.splitAmong |->
                          IF id = doc.paidBy THEN TRUE ELSE id \in paid],
       pendingStatus |-> [id \in doc.splitAmong |->
                          id = "u" /\ id # doc.paidBy /\ pending]] :
        paid \in SUBSET (doc.splitAmong \ {doc.paidBy}), pending \in BOOLEAN }

\* The bills with identifier id that the list of "u" can hold.
BalanceBills(id) ==
    UNION { { ApplyPatch(CreateBillDocument(id, BillData(form)), updates) :
                updates \in StatusUpdates(CreateBillDocument(id, BillData(form))) } :
            form \in { f \in BalanceForms : FormAllowsNext(f.paidBy, f.splitAmong) } }

\* The part of a bill in the dashboard's "You Owe" total: the user's share
\* of a bill of the split that somebody else paid and the user has not paid,
\* pending or not.
UnpaidPartIfNotPending(bill, uid) ==
    IF /\ uid \in bill.splitAmong
       /\ bill.paidBy # uid
       /\ ~Get(bill.paidStatus, uid)
       /\ ~Get(bill.pendingStatus, uid)
    THEN CalculateUserShare(bill, uid) ELSE Zero

UnpaidPart(bill, uid) ==
    IF uid \in bill.splitAmong /\ bill.paidBy # uid /\ ~Get(bill.paidStatus, uid)
    THEN CalculateUserShare(bill, uid) ELSE Zero

RECURSIVE TotalUnpaid(_, _)
\* totals.totalUnpaid of the dashboard with no filter active.
TotalUnpaid(billList, uid) ==
    IF billList = {} THEN Zero
    ELSE LET bill == CHOOSE b \in billList : TRUE
         IN  Plus(TotalUnpaid(billList \ {bill}, uid), UnpaidPart(bill, uid))

Completed(billList) == {b.id : b \in {x \in billList : IsBillCompleted(x)}}

\* What the pages of "u" show for a bill list.
Shown(op, id, billList) ==
    [op |-> op, id |-> id,
     completed |-> Completed(billList),
     balances |-> ComputeBalances(billList, "u"),
     totalUnpaid |-> TotalUnpaid(billList, "u")]

BalanceInit ==
    /\ user = [c \in Users |-> c = "u"]
    /\ store = {}
    /\ bills = [c \in Users |-> {}]
    /\ nextId = 1
    /\ last = Shown("init", 0, {})
    /\ NoOthers

\* A snapshot brings one more bill into the list of "u".
ReceiveBill ==
    /\ Cardinality(bills["u"]) < MaxListLen
    /\ \E id \in 1..MaxListLen : \E bill \in BalanceBills(id) :
        /\ \A b \in bills["u"] : b.id # id
        /\ Visible(bill, "u")
        /\ store' = store \cup {bill}
        /\ bills' = [bills EXCEPT !["u"] = @ \cup {bill}]
        /\ last' = Shown("add", id, bills["u"] \cup {bill})
    /\ UNCHANGED <<user, nextId, others>>

\* A snapshot after the deletion of a bill.
DropBill ==
    /\ \E bill \in bills["u"] :
        /\ store' = store \ {bill}
        /\ bills' = [bills EXCEPT !["u"] = @ \ {bill}]
        /\ last' = Shown("drop", bill.id, bills["u"] \ {bill})
    /\ UNCHANGED <<user, nextId, others>>

BalanceNext == ReceiveBill \/ DropBill

BalanceSpec == BalanceInit /\ [][BalanceNext]_vars

----------------------------------------------------------------------------
\* The two bill listeners of useData for user "u": each keeps the documents
\* its query last delivered, and updateBills publishes the merged list.  In
\* this part bills["u"] is the published array, in its order.

RECURSIVE SortDesc(_)
\* docs in the order of the queries: newest (highest id) first.
SortDesc(docs) ==
    IF docs = {} THEN << >>
    ELSE LET newest == CHOOSE d \in docs : \A e \in docs : e.id <= d.id
         IN  <<newest>> \o SortDesc(docs \ {newest})

UniqueBillsKeepingAll(allBills) == allBills

\* Array.from(new Map(allBills.map(bill => [bill.id, bill])).values()): one
\* entry per id, at the place of the id's first bill, holding its last bill.
UniqueBills(allBills) ==
    LET first == {k \in 1..Len(allBills) :
                    \A j \in 1..(k - 1) : allBills[j].id # allBills[k].id}
        lastOf(id) == CHOOSE k \in 1..Len(allBills) :
                        /\ allBills[k].id = id
                        /\ \A j \in (k + 1)..Len(allBills) : allBills[j].id # id
        RECURSIVE Pick(_)
        Pick(k) == IF k > Len(allBills) THEN << >>
                   ELSE IF k \in first
                   THEN <<allBills[lastOf(allBills[k].id)]>> \o Pick(k + 1)
                   ELSE Pick(k + 1)
    IN  Pick(1)

RECURSIVE SortByTimestamp(_)
\* uniqueBills.sort by timestamp, newest first; the sort is stable.
SortByTimestamp(billSeq) ==
    IF billSeq = << >> THEN << >>
    ELSE LET k == CHOOSE i \in 1..Len(billSeq) :
                    /\ \A j \in 1..Len(billSeq) : billSeq[j].id <= billSeq[i].id
                    /\ \A j \in 1..(i - 1) : billSeq[j].id < billSeq[i].id
         IN  <<billSeq[k]>> \o
             SortByTimestamp(SubSeq(billSeq, 1, k - 1)
                             \o SubSeq(billSeq, k + 1, Len(billSeq)))

\* updateBills: the list it publishes.
UpdateBills(payer, split) == SortByTimestamp(UniqueBills(payer \o split))

\* The bills created here: "u" is payer and member, payer only, member only,
\* or neither.
ListForms ==
    { [paidBy |-> "u", splitAmong |-> {"u", "f1"}],
      [paidBy |-> "u", splitAmong |-> {"f1"}],
      [paidBy |-> "f1", splitAmong |-> {"u", "f1"}],
      [paidBy |-> "f1", splitAmong |-> {"f1"}] }

ListOp(op, id) == [op |-> op, id |-> id]

ListInit ==
    /\ user = [c \in Users |-> c = "u"]
    /\ store = {}
    /\ bills = [c \in Users |-> << >>]
    /\ nextId = 1
    /\ last = ListOp("init", 0)
    /\ NoOthers

\* Somebody creates a bill.
ListCreate ==
    /\ nextId <= MaxListLen
    /\ \E form \in ListForms :
        /\ FormAllowsNext(form.paidBy, form.splitAmong)
        /\ store' = store \cup {NewBill(nextId, form.paidBy, form.splitAmong)}
    /\ nextId' = nextId + 1
    /\ last' = ListOp("createBill", nextId)
    /\ UNCHANGED <<user, bills, others>>

\* A participant marks or unmarks a payment: the stored bill changes.
ListTransition ==
    /\ \E doc \in store, op \in {"markPaid", "unmarkPending"},
          personId \in Users :
        /\ \/ op = "markPaid" /\ CanMarkPaid(doc, personId, personId)
           \/ op = "unmarkPending" /\ CanUnmarkPending(doc, personId, personId)
        /\ UpdateBill(doc.id, Updates(op, doc, personId), TRUE)
        /\ last' = ListOp(op, doc.id)
    /\ UNCHANGED <<user, bills, nextId, others>>

\* The payer deletes a bill.
ListDelete ==
    /\ \E doc \in store :
        /\ store' = store \ {doc}
        /\ last' = ListOp("deleteBill", doc.id)
    /\ UNCHANGED <<user, bills, nextId, others>>

\* The listener on where("paidBy", "==", uid) fires.
DeliverPayerBills ==
    /\ payerBills' = SortDesc({d \in store : d.paidBy = "u"})
    /\ bills' = [bills EXCEPT !["u"] = UpdateBills(payerBills', splitBills)]
    /\ last' = ListOp("payerBills", 0)
    /\ UNCHANGED <<user, store, nextId, friends, formItems, splitBills>>

\* The listener on where("splitAmong", "array-contains", uid) fires.
DeliverSplitBills ==
    /\ splitBills' = SortDesc({d \in store : "u" \in d.splitAmong})
    /\ bills' = [bills EXCEPT !["u"] = UpdateBills(payerBills, splitBills')]
    /\ last' = ListOp("splitBills", 0)
    /\ UNCHANGED <<user, store, nextId, friends, formItems, payerBills>>

ListNext ==
    \/ ListCreate
    \/ ListTransition
    \/ ListDelete
    \/ DeliverPayerBills
    \/ DeliverSplitBills

ListSpec == ListInit /\ [][ListNext]_vars

----------------------------------------------------------------------------
\* Friends: the collection "friendRequests" and the subcollections
\* users/{uid}/friends.  In this part store holds these documents, each with
\* its path and its fields ("" for a field the document does not have).
MaxDocs == 4

\* The identifiers addDoc generates.
AutoIds == <<"a1", "a2", "a3", "a4", "a5", "a6", "a7", "a8", "a9">>

AutoId(n) == AutoIds[n]

FriendPath(owner, docId) == <<"users", owner, "friends", docId>>

RequestPath(docId) == <<"friendRequests", docId>>

FriendDoc(owner, docId, friendId) ==
    [path |-> FriendPath(owner, docId), id |-> friendId,
     senderId |-> "", recipientId |-> "", status |-> ""]

RequestDoc(docId, senderId, recipientId, status) ==
    [path |-> RequestPath(docId), id |-> "",
     senderId |-> senderId, recipientId |-> recipientId, status |-> status]

FriendDocsOf(docs, owner) ==
    {d \in docs : Len(d.path) = 4 /\ d.path[2] = owner /\ d.path[3] = "friends"}

RequestDocs(docs) == {d \in docs : d.path[1] = "friendRequests"}

\* The friends subscription: ({ id: doc.id, ...doc.data() }), so the id
\* field of the document replaces the document's own identifier.
FriendIdShown(d) == IF d.id # "" THEN d.id ELSE d.path[4]

FriendList(docs, owner) == {FriendIdShown(d) : d \in FriendDocsOf(docs, owner)}

FriendInit ==
    /\ user = [c \in Users |-> TRUE]
    /\ store = {}
    /\ bills = [c \in Users |-> {}]
    /\ nextId = 1
    /\ last = Op("init", "u", 0, "u", "none", FALSE)
    /\ NoOthers

\* sendFriendRequest: refused when the user has sent this person a request
\* before, otherwise a pending request is added.
SendFriendRequest(c) ==
    /\ nextId <= MaxDocs
    /\ \E recipientId \in Users \ {c} :
        IF \E r \in RequestDocs(store) :
              r.senderId = c /\ r.recipientId = recipientId
        THEN /\ last' = Op("sendFriendRequest", c, 0, recipientId, "exists", TRUE)
             /\ UNCHANGED <<store, nextId>>
        ELSE /\ store' = store \cup
                    {RequestDoc(AutoId(nextId), c, recipientId, "pending")}
             /\ nextId' = nextId + 1
             /\ last' = Op("sendFriendRequest", c, 0, recipientId, "none", FALSE)
    /\ UNCHANGED <<user, bills, others>>

\* acceptFriendRequest on a pending incoming request: the request becomes
\* accepted and addDoc adds a friend document on both sides (both users
\* have their users/{uid} document, written at sign-up).
AcceptFriendRequest(c) ==
    /\ nextId + 1 <= MaxDocs
    /\ \E r \in RequestDocs(store) :
        /\ r.recipientId = c
        /\ r.status = "pending"
        /\ store' = (store \ {r})
                    \cup {[r EXCEPT !.status = "accepted"],
                          FriendDoc(c, AutoId(nextId), r.senderId),
                          FriendDoc(r.senderId, AutoId(nextId + 1), c)}
        /\ last' = Op("acceptFriendRequest", c, 0, r.senderId, "none", FALSE)
    /\ nextId' = nextId + 2
    /\ UNCHANGED <<user, bills, others>>

RejectFriendRequest(c) ==
    /\ \E r \in RequestDocs(store) :
        /\ r.recipientId = c
        /\ r.status = "pending"
        /\ store' = (store \ {r}) \cup {[r EXCEPT !.status = "rejected"]}
        /\ last' = Op("rejectFriendRequest", c, 0, r.senderId, "none", FALSE)
    /\ UNCHANGED <<user, bills, nextId, others>>

\* The friends listener of client c fires.
DeliverFriends(c) ==
    /\ friends' = [friends EXCEPT ![c] = FriendList(store, c)]
    /\ last' = Op("friends", c, 0, c, "none", FALSE)
    /\ UNCHANGED <<user, store, bills, nextId, formItems, payerBills, splitBills>>

\* The documents the batch of deleteFriend deletes: the two friend documents
\* named by the user ids, and the requests between the two users.
DeleteFriendBatch(c, friendUserId) ==
    {d \in store : d.path = FriendPath(c, friendUserId)}
    \cup {d \in store : d.path = FriendPath(friendUserId, c)}
    \cup {r \in RequestDocs(store) :
            \/ r.senderId = c /\ r.recipientId = friendUserId
            \/ r.senderId = friendUserId /\ r.recipientId = c}

\* The delete button of a friend of the list: deleteFriend(friend.id); the
\* batch is committed or rejected.
DeleteFriend(c) ==
    /\ user[c]
    /\ \E friendUserId \in friends[c] \ {c}, ok \in BOOLEAN :
        /\ store' = IF ok THEN store \ DeleteFriendBatch(c, friendUserId)
                          ELSE store
        /\ last' = Op("deleteFriend", c, 0, friendUserId, WriteError(ok), ~ok)
    /\ UNCHANGED <<user, bills, nextId, others>>

FriendNext ==
    \E c \in Users :
        \/ SendFriendRequest(c)
        \/ AcceptFriendRequest(c)
        \/ RejectFriendRequest(c)
        \/ DeliverFriends(c)
        \/ DeleteFriend(c)

FriendSpec == FriendInit /\ [][FriendNext]_vars

----------------------------------------------------------------------------
\* Vocabulary of the properties.

\* A step of the store from document d to document e of the same bill.
SameBill(d, e) == d.id = e.id

\* Who may ask for which transition of participant p on a bill paid by payer.
Authorized(op, actor, p, payer) ==
    CASE op = "markPaid"      -> actor = p
      [] op = "unmarkPending" -> actor = p \/ actor = payer
      [] op = "confirmPaid"   -> actor = payer
      [] op = "unmarkPaid"    -> actor = payer
      [] OTHER                -> FALSE

\* C1: a participant's stored paidStatus turns true only in a stored bill in
\* which that participant's pendingStatus is true (never straight from unpaid).
C1_PaidOnlyFromPending ==
    [][\A d \in store : \A e \in store' :
          SameBill(d, e) =>
             \A p \in Users :
                (~Get(d.paidStatus, p) /\ Get(e.paidStatus, p))
                   => Get(d.pendingStatus, p)]_vars

\* C2: a status transition for participant p leaves the stored paidStatus and
\* pendingStatus of every other participant unchanged.
C2_OthersUntouched ==
    [][last'.op \in TransitionOps =>
          \A d \in store : \A e \in store' :
             SameBill(d, e) =>
                \A q \in Users \ {last'.p} :
                   /\ Get(e.paidStatus, q) = Get(d.paidStatus, q)
                   /\ Get(e.pendingStatus, q) = Get(d.pendingStatus, q)]_vars

\* C3: in every stored bill the payer's own paidStatus is true.
C3_PayerAlwaysPaid ==
    \A d \in store : Get(d.paidStatus, d.paidBy)

C5_ConfirmSetsBoth ==
    (last.op = "confirmPaid" /\ last.ok) =>
        \E d \in store :
            /\ d.id = last.id
            /\ Get(d.paidStatus, last.p)
            /\ ~Get(d.pendingStatus, last.p)

\* A confirmation applied while the participant's own client still shows the
\* bill as pending: the store holds paid and not pending.
C5_Witness ==
    /\ last.op = "confirmPaid"
    /\ last.ok
    /\ \E b \in bills[last.p] :
          b.id = last.id /\ Get(b.pendingStatus, last.p)
                         /\ ~Get(b.paidStatus, last.p)
    /\ \E d \in store :
          d.id = last.id /\ Get(d.paidStatus, last.p)
                         /\ ~Get(d.pendingStatus, last.p)

\* C6: unmarkPaid(p) sets the stored paidStatus[p] to false, leaves the whole
\* stored pendingStatus map as it was, and takes a paid participant to unpaid
\* (paidStatus and pendingStatus both false).
C6_UnmarkPaidToUnpaid ==
    [][(last'.op = "unmarkPaid" /\ last'.ok) =>
          \A d \in store : \A e \in store' :
             (SameBill(d, e) /\ d.id = last'.id) =>
                /\ ~Get(e.paidStatus, last'.p)
                /\ e.pendingStatus = d.pendingStatus
                /\ (Get(d.paidStatus, last'.p)
                      => ~Get(e.pendingStatus, last'.p))]_vars

\* C7: the bill createBill stores has, for every member of splitAmong, an
\* explicit paidStatus entry that is true exactly for the payer and an
\* explicit pendingStatus entry that is false.
C7_CreateInitialisesStatus ==
    (last.op = "createBill" /\ last.ok) =>
        \E d \in store :
            /\ d.id = last.id
            /\ DOMAIN d.paidStatus = d.splitAmong
            /\ DOMAIN d.pendingStatus = d.splitAmong
            /\ \A p \in d.splitAmong :
                  /\ d.paidStatus[p] = (p = d.paidBy)
                  /\ d.pendingStatus[p] = FALSE

C7_Witness ==
    /\ last.op = "createBill"
    /\ last.ok
    /\ \E d \in store :
          /\ d.id = last.id
          /\ d.paidBy \in d.splitAmong
          /\ Cardinality(d.splitAmong) >= 2

\* C8: createBill called with no authenticated user ends with the error
\* "User not authenticated" and leaves the store as it was.
C8_UnauthenticatedCreateFails ==
    [][(last'.op = "createBill" /\ ~user[last'.actor]) =>
          /\ store' = store
          /\ ~last'.ok
          /\ last'.error = "unauthenticated"]_vars

C8_Witness ==
    /\ last.op = "createBill"
    /\ last.error = "unauthenticated"
    /\ ~user[last.actor]
    /\ store = {}

\* C9: the maps a status transition submits agree with the maps of the stored
\* bill at write time in every entry but the one of the participant concerned.
C9_SubmitsMergeOfStored ==
    [][last'.op \in TransitionOps =>
          \A d \in store : \A b \in bills[last'.actor] :
             (d.id = last'.id /\ b.id = last'.id) =>
                LET updates == Updates(last'.op, b, last'.p)
                IN  \A f \in DOMAIN updates : \A q \in Users \ {last'.p} :
                       Get(updates[f], q) = Get(d[f], q)]_vars

\* C10: a storage write of a status transition or of a bill deletion that
\* fails is seen as a failure by the handler that asked for it.
C10_WriteFailureObserved ==
    (last.op \in TransitionOps \cup {"deleteBill"} /\ last.error = "write")
        => last.caught

\* Sum of the computed shares over a set of people.
RECURSIVE SumShares(_, _)
SumShares(shares, people) ==
    IF people = {} THEN Zero
    ELSE LET p == CHOOSE x \in people : TRUE
         IN  Plus(SumShares(shares, people \ {p}), shares[p])

\* C18: for an equal-split bill with total amount A and n >= 1 participants,
\* the share computed for every participant is A/n (n times the share is A)
\* and the shares of the participants sum to A.
C18_EqualSharesSumToAmount ==
    \A bill \in store :
        (last.op = "shares" /\ bill.splitType = "equal" /\ bill.splitAmong # {}) =>
            LET A == SafeNumber(bill.amount)
                n == Cardinality(bill.splitAmong)
            IN  /\ \A p \in bill.splitAmong : Times(last.shares[p], Num(n)) = A
                /\ SumShares(last.shares, bill.splitAmong) = A

C18_Witness ==
    \E bill \in store :
        /\ last.op = "shares"
        /\ bill.splitType = "equal"
        /\ bill.amount = Num(10)
        /\ Cardinality(bill.splitAmong) = 3
        /\ \A p \in bill.splitAmong : last.shares[p] = Frac(10, 3)

\* C19: for a custom-split bill the shares computed for the participants of
\* splitAmong sum to itemizedTotal + taxAmount + tipsAmount, itemizedTotal
\* being the sum of all itemizedAmounts values.
C19_CustomSharesSumToTotal ==
    \A bill \in store :
        (last.op = "shares" /\ bill.splitType = "custom") =>
            SumShares(last.shares, bill.splitAmong)
                = Plus(Plus(ItemizedTotal(bill), TaxAmount(bill)), TipsAmount(bill))

\* C20: for a custom-split bill the share of p is item_p plus the part
\* item_p / itemizedTotal of the tax and tips, these being the stored
\* percentages of itemizedTotal (so 100 * share = item_p * (100 + tax% +
\* tips%)) when itemizedTotal is not 0, and item_p when it is 0.
C20_CustomShareProportional ==
    \A bill \in store :
        (last.op = "shares" /\ bill.splitType = "custom") =>
            \A p \in Users :
                LET item == SafeNumber(ItemOf(bill.itemizedAmounts, p))
                    percent == Plus(SafeNumber(bill.taxPercentage),
                                    SafeNumber(bill.tipsPercentage))
                IN  IF IsZero(ItemizedTotal(bill))
                    THEN last.shares[p] = item
                    ELSE Times(last.shares[p], Num(100))
                            = Times(item, Plus(Num(100), percent))

\* Tax and tips are stored, bill.amount differs from itemizedTotal, and a
\* participant with items has a share.
C20_Witness ==
    \E bill \in store :
        /\ last.op = "shares"
        /\ bill.splitType = "custom"
        /\ ItemizedTotal(bill) = Num(40)
        /\ bill.amount = Num(12)
        /\ bill.taxPercentage = Num(10)
        /\ bill.tipsPercentage = Num(5)
        /\ last.shares["u"] = Frac(23, 2)

\* The branch of C20 for an itemized total of 0: amounts that cancel.
C20_WitnessZeroTotal ==
    \E bill \in store :
        /\ last.op = "shares"
        /\ bill.splitType = "custom"
        /\ IsZero(ItemizedTotal(bill))
        /\ bill.taxPercentage = Num(10)
        /\ last.shares["u"] = Num(10)

\* C12: a bill is shown as completed exactly when every id of splitAmong
\* other than paidBy has paidStatus true (an absent entry counting as false),
\* so also when splitAmong holds nobody but the payer; replacing pendingStatus
\* by any other map never changes the result.
C12_CompletedIffAllOthersPaid ==
    \A bill \in bills["u"] :
        /\ (bill.id \in last.completed)
             <=> (\A id \in bill.splitAmong :
                     id # bill.paidBy =>
                        (id \in DOMAIN bill.paidStatus /\ bill.paidStatus[id]))
        /\ (bill.splitAmong \subseteq {bill.paidBy}) => bill.id \in last.completed
        /\ \A pending \in [bill.splitAmong -> BOOLEAN] :
              IsBillCompleted([bill EXCEPT !.pendingStatus = pending])
                 <=> bill.id \in last.completed

\* A bill whose only unpaid participant has a payment pending is shown as
\* not completed, next to a completed bill.
C12_Witness ==
    \E bill \in bills["u"], done \in bills["u"] :
        /\ bill.paidBy = "f1"
        /\ bill.splitAmong = {"u", "f1", "f2"}
        /\ bill.paidStatus["f2"] /\ ~bill.paidStatus["u"]
        /\ bill.pendingStatus["u"]
        /\ bill.id \notin last.completed
        /\ done.splitAmong = {"u", "f1"}
        /\ done.id \in last.completed

OwesOf(balances, id) == EntryOf(balances, id).owes

OwedOf(balances, id) == EntryOf(balances, id).owed

\* C13: adding a completed bill to the list, or removing one from it, changes
\* neither the set of balance entries nor any owes, owed or netBalance value.
C13_CompletedBillContributesNothing ==
    [][(\E bill \in (store' \ store) \cup (store \ store') : IsBillCompleted(bill))
          => last'.balances = last.balances]_vars

\* A completed bill with the user and the friends in it joined a list that
\* has balances.
C13_Witness ==
    \E bill \in bills["u"] :
        /\ last.op = "add"
        /\ bill.id = last.id
        /\ IsBillCompleted(bill)
        /\ bill.paidBy = "f1"
        /\ bill.splitAmong = {"u", "f1", "f2"}
        /\ DOMAIN last.balances = {"f2"}

\* C14: a non-completed bill paid by the user, with the user in splitAmong,
\* adds the share of p to the owes of every other participant p who has not
\* paid, and nothing to the owes of a participant who has paid.
C14_PayerCaseAddsToOwes ==
    [][\A bill \in store' \ store :
          (bill.paidBy = "u" /\ "u" \in bill.splitAmong /\ ~IsBillCompleted(bill)) =>
             \A p \in bill.splitAmong \ {"u"} :
                OwesOf(last'.balances, p)
                   = Plus(OwesOf(last.balances, p),
                          IF Get(bill.paidStatus, p) THEN Zero
                          ELSE CalculateUserShare(bill, p))]_vars

C14_Witness ==
    \E bill \in bills["u"] :
        /\ last.op = "add"
        /\ bill.id = last.id
        /\ bill.paidBy = "u"
        /\ bill.splitAmong = {"u", "f1", "f2"}
        /\ bill.paidStatus["f1"] /\ ~bill.paidStatus["f2"]
        /\ bill.splitType = "equal"
        /\ OwesOf(last.balances, "f2") = Num(4)
        /\ "f1" \notin DOMAIN last.balances

\* C15: a non-completed bill paid by someone else, with the user in
\* splitAmong, adds the user's share to the payer's owed exactly when the
\* user's paidStatus is false, whatever the user's pendingStatus is.
C15_OtherPayerCaseAddsToOwed ==
    [][\A bill \in store' \ store :
          (bill.paidBy # "u" /\ "u" \in bill.splitAmong /\ ~IsBillCompleted(bill)) =>
             OwedOf(last'.balances, bill.paidBy)
                = Plus(OwedOf(last.balances, bill.paidBy),
                       IF Get(bill.paidStatus, "u") THEN Zero
                       ELSE CalculateUserShare(bill, "u"))]_vars

\* The user's payment is pending and the share is still owed.
C15_Witness ==
    \E bill \in bills["u"] :
        /\ last.op = "add"
        /\ bill.id = last.id
        /\ bill.paidBy = "f1"
        /\ bill.splitAmong = {"u", "f1"}
        /\ ~bill.paidStatus["u"] /\ bill.pendingStatus["u"]
        /\ bill.splitType = "equal"
        /\ OwedOf(last.balances, "f1") = Num(6)

\* What the friend owes the user over a bill list: the friend's shares of the
\* outstanding bills the user paid that the friend has not paid.
RECURSIVE OwesTotal(_, _)
OwesTotal(billList, friend) ==
    IF billList = {} THEN Zero
    ELSE LET bill == CHOOSE b \in billList : TRUE
         IN  Plus(OwesTotal(billList \ {bill}, friend),
                  IF /\ ~IsBillCompleted(bill)
                     /\ bill.paidBy = "u" /\ "u" \in bill.splitAmong
                     /\ friend \in bill.splitAmong \ {"u"}
                     /\ ~Get(bill.paidStatus, friend)
                  THEN CalculateUserShare(bill, friend) ELSE Zero)

\* What the user owes the friend: the user's unpaid shares of the outstanding
\* bills the friend paid.
RECURSIVE OwedTotal(_, _)
OwedTotal(billList, friend) ==
    IF billList = {} THEN Zero
    ELSE LET bill == CHOOSE b \in billList : TRUE
         IN  Plus(OwedTotal(billList \ {bill}, friend),
                  IF /\ ~IsBillCompleted(bill)
                     /\ bill.paidBy = friend /\ friend # "u"
                     /\ "u" \in bill.splitAmong
                     /\ ~Get(bill.paidStatus, "u")
                  THEN CalculateUserShare(bill, "u") ELSE Zero)

\* C16: in every balance entry netBalance = owes - owed, owes and owed being
\* the sums over all outstanding bills of what the friend owes the user and
\* of what the user owes the friend.
C16_NetIsOwesMinusOwed ==
    \A id \in DOMAIN last.balances :
        /\ Plus(last.balances[id].netBalance, last.balances[id].owed)
              = last.balances[id].owes
        /\ last.balances[id].owes = OwesTotal(bills["u"], id)
        /\ last.balances[id].owed = OwedTotal(bills["u"], id)

\* A friend who is debtor in one bill and creditor in another.
C16_Witness ==
    /\ "f1" \in DOMAIN last.balances
    /\ last.balances["f1"].owes = Num(6)
    /\ last.balances["f1"].owed = Num(4)
    /\ last.balances["f1"].netBalance = Num(2)

\* C17: a friend has a balance entry only when some outstanding bill
\* contributes an amount between the user and the friend, so no entry has
\* both owes = 0 and owed = 0.
C17_EntryOnlyWithStake ==
    \A id \in DOMAIN last.balances :
        /\ \E bill \in bills["u"] :
              /\ ~IsBillCompleted(bill)
              /\ "u" \in bill.splitAmong
              /\ \/ bill.paidBy = "u" /\ id \in bill.splitAmong \ {"u"}
                                      /\ ~Get(bill.paidStatus, id)
                 \/ bill.paidBy = id /\ id # "u" /\ ~Get(bill.paidStatus, "u")
        /\ ~(IsZero(last.balances[id].owes) /\ IsZero(last.balances[id].owed))

\* The bill with 0 in the place of every numeric field that is not a number.
Zeroed(bill) ==
    LET z(v) == IF v.nan THEN Zero ELSE v
    IN  [bill EXCEPT !.amount = z(@), !.taxPercentage = z(@),
                     !.tipsPercentage = z(@),
                     !.itemizedAmounts = [k \in DOMAIN @ |-> z(@[k])]]

\* C21: for a bill whose numeric fields are each missing, not a number or
\* non-negative, the share computed for every person is a number >= 0; it is
\* the share of the bill with those fields replaced by 0, and an equal split
\* with no splitAmong gives the whole amount (a count of 1).
C21_ShareIsTotalAndNonNegative ==
    \A bill \in store :
        last.op = "shares" =>
            \A p \in Users :
                /\ ~last.shares[p].nan
                /\ last.shares[p].num >= 0 /\ last.shares[p].den > 0
                /\ last.shares[p] = CalculateUserShare(Zeroed(bill), p)
                /\ (bill.splitType = "equal" /\ bill.splitAmong = {}) =>
                      last.shares[p] = Zeroed(bill).amount

\* A custom bill with a missing tax, a non-numeric item amount and no
\* splitAmong, and its share.
C21_Witness ==
    \E bill \in store :
        /\ last.op = "shares"
        /\ bill.splitType = "custom"
        /\ bill.splitAmong = {}
        /\ bill.amount = NaN
        /\ bill.taxPercentage = NaN
        /\ bill.tipsPercentage = Num(5)
        /\ bill.itemizedAmounts = [k \in {"u", "f1"} |-> IF k = "u" THEN Num(10) ELSE NaN]
        /\ last.shares["u"] = Frac(21, 2)
        /\ last.shares["f1"] = Zero

\* C22: the amount of every bill createBill stored is a number, never a
\* not-a-number value, for an equal and for a custom split.
C22_StoredAmountIsNumber ==
    \A bill \in store : ~bill.amount.nan

\* C23: every bill created through the add-bill flow has a non-empty
\* splitAmong that contains its paidBy.
C23_SplitAmongHoldsPayer ==
    \A d \in store : d.splitAmong # {} /\ d.paidBy \in d.splitAmong

\* C24: in no stored bill has a participant paidStatus true and pendingStatus
\* true at the same time, whatever the clients do from their snapshots.
C24_NeverPaidAndPending ==
    \A d \in store : \A p \in Users :
        ~(Get(d.paidStatus, p) /\ Get(d.pendingStatus, p))

\* C25: for the same bill and every participant of splitAmong, the amount
\* the bill detail page shows equals the share the dashboard and the balance
\* aggregator compute.
C25_DetailShowsSameShare ==
    \A bill \in store :
        last.op = "shares" =>
            \A p \in bill.splitAmong : last.detail[p] = last.shares[p]

\* The part of an item that falls to a person: the whole item for its
\* assignee, an equal part for each person it is shared with, and with
\* neither an equal part for each person of splitAmong.
PartOf(item, person, splitAmong) ==
    LET amt == ParseOrZero(item.amount)
    IN  IF item.assignedTo # ""
        THEN IF person = item.assignedTo THEN amt ELSE Zero
        ELSE IF item.sharedWith # {}
        THEN IF person \in item.sharedWith
             THEN Over(amt, Num(Cardinality(item.sharedWith))) ELSE Zero
        ELSE IF person \in splitAmong
             THEN Over(amt, Num(Cardinality(splitAmong))) ELSE Zero

RECURSIVE PartsSum(_, _, _)
PartsSum(itemList, person, splitAmong) ==
    IF itemList = << >> THEN Zero
    ELSE Plus(PartOf(Head(itemList), person, splitAmong),
              PartsSum(Tail(itemList), person, splitAmong))

\* C27: in a custom-split bill created through the add-bill form the stored
\* itemizedAmounts hold, for every person, the sum of the person's parts of
\* the stored items (0 for a person without an entry), and the itemizedAmounts
\* values sum to the sum of the item amounts.
C27_ItemizedAmountsAreSubtotals ==
    \A bill \in store :
        (bill.splitType = "custom" /\ bill.items # << >>) =>
            /\ \A person \in Users :
                  (IF person \in DOMAIN bill.itemizedAmounts
                   THEN bill.itemizedAmounts[person] ELSE Zero)
                     = PartsSum(bill.items, person, bill.splitAmong)
            /\ bill.splitAmong \subseteq DOMAIN bill.itemizedAmounts
            /\ SumRaw(bill.itemizedAmounts, DOMAIN bill.itemizedAmounts)
                  = ItemsSum(bill.items)

\* An item of 10 assigned to f1 and an item of 30 for everybody, three
\* participants.
C27_Witness ==
    \E bill \in store :
        /\ bill.splitType = "custom"
        /\ bill.splitAmong = {"u", "f1", "f2"}
        /\ Len(bill.items) = 2
        /\ bill.items[1].assignedTo = "f1" /\ bill.items[1].amount = Num(10)
        /\ bill.items[2].assignedTo = "" /\ bill.items[2].sharedWith = {}
        /\ bill.items[2].amount = Num(30)
        /\ bill.itemizedAmounts["u"] = Num(10)
        /\ bill.itemizedAmounts["f1"] = Num(20)
        /\ bill.itemizedAmounts["f2"] = Num(10)

\* C26: after any sequence of addItem, removeItem, updateItemField (name or
\* amount), setItemAssignedTo and toggleItemSharedUser no item of the form has
\* both an assignee and a non-empty sharedWith.
C26_OneAssignmentMode ==
    \A k \in 1..Len(formItems) :
        ~(formItems[k].assignedTo # "" /\ formItems[k].sharedWith # {})

\* An assigned item was shared with somebody and lost its assignee, next to
\* an item that is assigned.
C26_Witness ==
    /\ last.op = "toggleItemSharedUser"
    /\ last.wasAssignedTo = "f1"
    /\ \E k \in 1..Len(formItems), j \in 1..Len(formItems) :
          /\ formItems[k].id = last.id
          /\ formItems[k].sharedWith = {"f2"}
          /\ formItems[k].assignedTo = ""
          /\ formItems[j].assignedTo = "u"
          /\ formItems[j].sharedWith = {}

\* C29: the bill list useData publishes holds every bill id at most once,
\* whatever the two listeners have delivered, also for a bill in which the
\* user is both payer and member of splitAmong.
C29_PublishedIdsDistinct ==
    \A i \in 1..Len(bills["u"]), j \in 1..Len(bills["u"]) :
        i # j => bills["u"][i].id # bills["u"][j].id

\* A bill the user paid and is a member of was delivered by both listeners,
\* in two different versions, and is published once, with another bill.
C29_Witness ==
    /\ Len(bills["u"]) = 2
    /\ \E i \in 1..Len(payerBills), j \in 1..Len(splitBills) :
          /\ payerBills[i].id = splitBills[j].id
          /\ payerBills[i] # splitBills[j]
          /\ payerBills[i].paidBy = "u"
          /\ "u" \in payerBills[i].splitAmong

RECURSIVE SumOwed(_, _)
SumOwed(balances, ids) ==
    IF ids = {} THEN Zero
    ELSE LET id == CHOOSE x \in ids : TRUE
         IN  Plus(SumOwed(balances, ids \ {id}), balances[id].owed)

\* C30: with no filter active the dashboard's "You Owe" total equals the sum
\* of owed over all entries of the balances computed from the same bill list
\* for the same user.
C30_YouOweEqualsSumOfOwed ==
    last.totalUnpaid = SumOwed(last.balances, DOMAIN last.balances)

\* Two bills paid by two friends, the user's payment pending in one of them.
C30_Witness ==
    /\ last.totalUnpaid = Num(10)
    /\ DOMAIN last.balances = {"f1", "f2"}
    /\ last.balances["f1"].owed = Num(6)
    /\ last.balances["f2"].owed = Num(4)
    /\ \E bill \in bills["u"] : bill.paidBy = "f1" /\ bill.pendingStatus["u"]

\* C28: after deleteFriend(f) has completed successfully f is not in the
\* user's friend list and the user is not in f's friend list, as the friends
\* subscriptions read them from the store.
C28_DeletedFriendIsGone ==
    (last.op = "deleteFriend" /\ last.ok) =>
        /\ last.p \notin FriendList(store, last.actor)
        /\ last.actor \notin FriendList(store, last.p)

====
